---- MODULE Spec2Model ----
(***************************************************************************)
(* The scheduler/dispatcher pipeline of the email gateway                  *)
(* (src/services/scheduler.rs, src/services/producer.rs,                   *)
(* src/models/email.rs, src/api/handlers.rs): scheduler processes that     *)
(* share one store claim due requests, publish them to the message bus     *)
(* under a semaphore and write the outcomes back.                          *)
(***************************************************************************)
EXTENDS Integers, Sequences, FiniteSets, TLC

(* ------------------------------ bounds -------------------------------- *)
\* scheduler processes that share the store
NumProcs == 2
\* request rows the ingress inserts
MaxRequests == 2
\* last instant of the clock
MaxTime == 1
\* ticks of one scheduler loop that are counted
MaxTicks == 1
\* largest BATCH_SIZE of the configurations under check
BatchSize == 2
\* rows and BATCH_SIZE of the two-process scenario (S5 of the specification)
ScenarioRows == 10
ScenarioBatch == 5
\* rows of the scenario with one batch wider than the semaphore
WideRows == 11
\* rows of the backlogs with mixed schedules
OrderRows == 3
\* longest content of a request whose body is composed
MaxContentLen == 2
\* spawned inserts of create_open_event that have not run yet
MaxPending == 2
\* deadlines of the interval that are counted while no tick is taken
MaxMissed == 2

(* ------------------------- program constants -------------------------- *)
\* tokio::sync::Semaphore::new(10)
Permits == 10
\* chrono::Duration::hours(1): how far in the past scheduled_at may lie
PastLimit == 1

Procs == 1..NumProcs

\* EmailStatus, with its storage codes
Created == "Created"
Processing == "Processing"
Sent == "Sent"
Failed == "Failed"
Stopped == "Stopped"
\* not a status: marks a row that was deleted from email_requests, so that
\* the ids of the other rows stay what they were
Deleted == "Deleted"
EmailStatus == {Created, Processing, Sent, Failed, Stopped}
StatusCode(s) ==
    CASE s = Created -> 0
      [] s = Processing -> 1
      [] s = Sent -> 2
      [] s = Failed -> 3
      [] s = Stopped -> 4

\* EmailStatus::is_terminal
is_terminal(s) == s \in {Sent, Failed, Stopped}

\* faulty variant: every move out of a status that is not terminal
can_leave_non_terminal(from, to) == from # to /\ ~is_terminal(from)

\* EmailStatus::can_transition_to
can_transition_to(from, to) ==
    \/ from = Created /\ to = Processing
    \/ from = Processing /\ to \in {Sent, Failed}
    \/ from \in {Created, Processing} /\ to = Stopped

\* Option<T>: None is the empty sequence, Some(x) is <<x>>
None == <<>>
Some(x) == <<x>>
IsNone(o) == o = <<>>
Unwrap(o) == o[1]

\* what the broker does with the publish of one request:
\* acknowledges it, fails it (publish or ack error), or the task panics
Ack == "ack"
Nack == "nack"
Panic == "panic"
BrokerOutcome == {Ack, Nack, Panic}

\* AppError::Nats(e.to_string()) rendered by Display
NatsError == "NATS error"

VARIABLES
    now,          \* Utc::now(), the wall clock
    batch_size,   \* config.scheduler.batch_size
    requests,     \* table email_requests: sequence of rows, the index is the id
    broker,       \* per request id, the broker's answer to its publish
    published,    \* per request id, how many times jetstream.publish was called
    claimed,      \* per request id, how many claim statements returned it
    pc,           \* per process, where its scheduler loop stands
    ticks,        \* per process, ticks of interval.tick() so far, up to MaxTicks
    cnow,         \* per process, `now` of the current loop iteration
    locked,       \* per process, rows its claim statement holds FOR UPDATE
    batch,        \* per process, `requests` returned by the claim
    permits,      \* per process, free permits of the batch's semaphore
    tasks,        \* per process, state of the spawned publish tasks
    joined,       \* per process, how many task handles were awaited
    updates,      \* per process, `updates` collected for bulk_update_requests
    signalled,    \* per process, signal::ctrl_c() has resolved in main
    call,         \* one call of a pure function: arguments and results
    contents,     \* table email_contents: sequence of rows, the index is the id
    results,      \* table email_results: sequence of rows, in insertion order
    opens,        \* per request id, spawned inserts of create_open_event to run
    response,     \* the last response of create_result_event
    timer,        \* per process, the interval of run(): deadlines passed since
                  \* the last tick, and deadlines the last tick skipped
    started,      \* request ids in the order their publish tasks began to run
    delivered,    \* (request id, status) pairs handed to a result handler so far
    main,         \* per process, how far main() got: the producer it built,
                  \* the services it spawned, the result it returned
    http,         \* the last HTTP exchange: its route, the x-api-key header
                  \* auth_middleware holds (an Option), and its response
    api_key       \* config.security.api_key

storeVars == <<requests, published, claimed>>
\* what the collaborators, the interval and the runtime own
sideVars == <<contents, results, opens, response, timer, started, delivered,
              main, http, api_key>>
\* what no step of process_scheduled_emails writes
confVars == <<batch_size, broker, signalled, call, sideVars>>
procVars == <<pc, ticks, cnow, locked, batch, permits, tasks, joined, updates>>
vars == <<now, confVars, storeVars, procVars>>

Ids == 1..Len(requests)

Min(a, b) == IF a < b THEN a ELSE b
Range(s) == {s[i] : i \in 1..Len(s)}

\* a row of email_requests as create_message inserts it
\* (one recipient per message, no topic given: topic_id is the empty string)
NewRequest(content_id, sched, at) ==
    [topic_id |-> "", to_email |-> "to@example.com", content_id |-> content_id,
     status |-> Created, scheduled_at |-> sched, error |-> None,
     created_at |-> at, updated_at |-> at]

\* a row of email_contents as create_message inserts it
NewContent(at) ==
    [subject |-> "subject", content |-> "content", created_at |-> at,
     updated_at |-> at]

(* ------------------------------- claim -------------------------------- *)
\* faulty variant: the WHERE clause without its status test
ready_any_status(r, t) ==
    IsNone(r.scheduled_at) \/ Unwrap(r.scheduled_at) <= t

\* faulty variant: the WHERE clause also taking rows left in Processing
ready_or_processing(r, t) ==
    /\ r.status \in {Created, Processing}
    /\ (IsNone(r.scheduled_at) \/ Unwrap(r.scheduled_at) <= t)

\* faulty variant: the WHERE clause without its scheduled_at test
ready_ignoring_schedule(r, t) == r.status = Created

\* EmailRequest::is_ready_to_send, the WHERE clause of the claim
is_ready_to_send(r, t) ==
    /\ r.status = Created
    /\ (IsNone(r.scheduled_at) \/ Unwrap(r.scheduled_at) <= t)

\* rows some claim statement in flight holds locked
LockedIds == UNION {Range(locked[p]) : p \in Procs}

\* the ORDER BY of the claim: nulls first, scheduled_at, created_at
NullRank(r) == IF IsNone(r.scheduled_at) THEN 0 ELSE 1
SchedKey(r) == IF IsNone(r.scheduled_at) THEN 0 ELSE Unwrap(r.scheduled_at)
\* faulty variant: ORDER BY created_at alone
OrderByCreated(a, b) == a.created_at < b.created_at

OrderBefore(a, b) ==
    \/ NullRank(a) < NullRank(b)
    \/ NullRank(a) = NullRank(b) /\ SchedKey(a) < SchedKey(b)
    \/ /\ NullRank(a) = NullRank(b)
       /\ SchedKey(a) = SchedKey(b)
       /\ a.created_at < b.created_at

\* faulty variant: a SELECT that neither locks nor skips locked rows
EligibleNoSkip(t) == {i \in Ids : is_ready_to_send(requests[i], t)}

\* the rows the SELECT of the claim may see at time t: ready and not locked
Eligible(t) ==
    {i \in Ids : is_ready_to_send(requests[i], t) /\ i \notin LockedIds}

\* every sequence of the ids in S that respects the ORDER BY; rows with equal
\* keys come in either order
RECURSIVE Ordered(_)
Ordered(S) ==
    IF S = {} THEN {<<>>}
    ELSE UNION {
        {<<m>> \o t : t \in Ordered(S \ {m})} :
        m \in {x \in S : \A y \in S : ~OrderBefore(requests[y], requests[x])}}

\* faulty variant: the SELECT without its LIMIT
SelectedNoLimit(t) == Ordered(Eligible(t))

\* ORDER BY ... LIMIT batch_size FOR UPDATE SKIP LOCKED
Selected(t) ==
    LET E == Eligible(t)
        k == Min(batch_size, Cardinality(E))
    IN  {SubSeq(s, 1, k) : s \in Ordered(E)}

\* interval.tick().await returns, at some time; process_scheduled_emails
\* starts
TickFire(p) ==
    /\ pc[p] = "wait"
    /\ ticks' = [ticks EXCEPT ![p] = Min(@ + 1, MaxTicks)]
    /\ pc' = [pc EXCEPT ![p] = "claim"]
    /\ UNCHANGED <<now, confVars, storeVars, cnow, locked, batch, permits,
                   tasks, joined, updates>>

\* faulty variant: MissedTickBehavior::Burst, every missed deadline fires
MissedTickBurst(due) == due - 1

\* MissedTickBehavior::Skip: the deadlines still due after a tick returned
MissedTickSkip(due) == 0

\* a period of the interval of run() passes while a cycle runs, or while
\* the loop waits with no deadline due (a due tick is taken within a period)
Deadline(p) ==
    /\ timer[p].due < MaxMissed
    /\ pc[p] = "wait" => timer[p].due = 0
    /\ timer' = [timer EXCEPT ![p].due = @ + 1]
    /\ UNCHANGED <<now, batch_size, broker, signalled, call, contents, results,
                   opens, response, started, delivered, main, api_key, http,
                   storeVars, procVars>>

\* interval.tick().await returns because a deadline has passed (the first
\* one passes at once); process_scheduled_emails starts
TimedTick(p) ==
    /\ pc[p] = "wait"
    /\ timer[p].due > 0
    /\ timer' = [timer EXCEPT
                    ![p] = [due |-> MissedTickSkip(timer[p].due),
                            skipped |-> timer[p].due - 1
                                            - MissedTickSkip(timer[p].due)]]
    /\ ticks' = [ticks EXCEPT ![p] = Min(@ + 1, MaxTicks)]
    /\ pc' = [pc EXCEPT ![p] = "claim"]
    /\ UNCHANGED <<now, batch_size, broker, signalled, call, contents, results,
                   opens, response, started, delivered, main, api_key, http,
                   storeVars, cnow, locked,
                   batch, permits, tasks, joined, updates>>

\* the claim statement reads the clock, selects its rows and locks them
ClaimSelect(p) ==
    /\ pc[p] = "claim"
    /\ \E sel \in Selected(now) :
        /\ locked' = [locked EXCEPT ![p] = sel]
    /\ cnow' = [cnow EXCEPT ![p] = now]
    /\ pc' = [pc EXCEPT ![p] = "locked"]
    /\ UNCHANGED <<now, confVars, storeVars, ticks, batch, permits, tasks,
                   joined, updates>>

\* faulty variant: the claim statement returns the rows without marking them
MarkProcessingUnmarked(rows, ids, t) ==
    [i \in 1..Len(rows) |->
        IF i \in ids THEN [rows[i] EXCEPT !.updated_at = t] ELSE rows[i]]

\* faulty variant: the claim statement also sets scheduled_at
MarkProcessingReschedule(rows, ids, t) ==
    [i \in 1..Len(rows) |->
        IF i \in ids
        THEN [rows[i] EXCEPT !.status = Processing, !.updated_at = t,
                             !.scheduled_at = Some(t)]
        ELSE rows[i]]

\* UPDATE ... SET status = Processing, updated_at = now ... RETURNING
MarkProcessing(rows, ids, t) ==
    [i \in 1..Len(rows) |->
        IF i \in ids
        THEN [rows[i] EXCEPT !.status = Processing, !.updated_at = t]
        ELSE rows[i]]

\* the claim statement updates the locked rows, commits and returns them;
\* an empty result ends the tick
ClaimCommit(p) ==
    /\ pc[p] = "locked"
    /\ requests' = MarkProcessing(requests, Range(locked[p]), cnow[p])
    /\ claimed' = [i \in Ids |->
                     IF i \in Range(locked[p]) THEN claimed[i] + 1
                     ELSE claimed[i]]
    /\ batch' = [batch EXCEPT ![p] = locked[p]]
    /\ locked' = [locked EXCEPT ![p] = <<>>]
    /\ permits' = [permits EXCEPT ![p] = Permits]
    /\ pc' = [pc EXCEPT ![p] = IF locked[p] = <<>> THEN "wait" ELSE "spawn"]
    /\ cnow' = [cnow EXCEPT ![p] = 0]
    /\ UNCHANGED <<now, confVars, published, ticks, tasks, joined, updates>>

(* ------------------------------ dispatch ------------------------------ *)
\* the local variables of one loop iteration, as they are before a claim
NoBatch(p) ==
    /\ batch' = [batch EXCEPT ![p] = <<>>]
    /\ permits' = [permits EXCEPT ![p] = Permits]
    /\ tasks' = [tasks EXCEPT ![p] = <<>>]
    /\ joined' = [joined EXCEPT ![p] = 0]
    /\ updates' = [updates EXCEPT ![p] = <<>>]

\* faulty variant: tasks spawned without taking a permit
SpawnNoPermit(p) ==
    /\ pc[p] = "spawn"
    /\ Len(tasks[p]) < Len(batch[p])
    /\ permits' = [permits EXCEPT ![p] = @ - 1]
    /\ tasks' = [tasks EXCEPT ![p] = Append(@, "running")]
    /\ pc' = [pc EXCEPT ![p] =
                IF Len(tasks[p]) + 1 = Len(batch[p]) THEN "collect" ELSE "spawn"]
    /\ UNCHANGED <<now, confVars, storeVars, ticks, cnow, locked, batch,
                   joined, updates>>

\* for request in requests: acquire_owned().await, then tokio::spawn
\* (the semaphore is never closed, so acquire_owned does not fail)
Spawn(p) ==
    /\ pc[p] = "spawn"
    /\ Len(tasks[p]) < Len(batch[p])
    /\ permits[p] > 0
    /\ permits' = [permits EXCEPT ![p] = @ - 1]
    /\ tasks' = [tasks EXCEPT ![p] = Append(@, "running")]
    /\ pc' = [pc EXCEPT ![p] =
                IF Len(tasks[p]) + 1 = Len(batch[p]) THEN "collect" ELSE "spawn"]
    /\ UNCHANGED <<now, confVars, storeVars, ticks, cnow, locked, batch,
                   joined, updates>>

\* faulty variant: the acknowledgement is not awaited, a failed one counts
\* as success
publish_without_ack(id) ==
    CASE broker[id] = Ack -> "ok"
      [] broker[id] = Nack -> "ok"
      [] broker[id] = Panic -> "panic"

\* the result of ProducerService::publish_email for request id
publish_email(id) ==
    CASE broker[id] = Ack -> "ok"
      [] broker[id] = Nack -> "err"
      [] broker[id] = Panic -> "panic"

\* faulty variant: a task that panics keeps its permit
TaskFinishLeak(p, i) ==
    /\ i \in 1..Len(tasks[p])
    /\ tasks[p][i] = "running"
    /\ LET id == batch[p][i] IN
        /\ tasks' = [tasks EXCEPT ![p][i] = publish_email(id)]
        /\ published' = [published EXCEPT ![id] =
                            IF broker[id] = Panic THEN @ ELSE @ + 1]
        /\ permits' = [permits EXCEPT ![p] =
                            IF broker[id] = Panic THEN @ ELSE @ + 1]
    /\ UNCHANGED <<now, confVars, requests, claimed, pc, ticks, cnow, locked,
                   batch, joined, updates>>

\* a spawned task runs publish_email to its end and drops its permit
TaskFinish(p, i) ==
    /\ i \in 1..Len(tasks[p])
    /\ tasks[p][i] = "running"
    /\ LET id == batch[p][i] IN
        /\ tasks' = [tasks EXCEPT ![p][i] = publish_email(id)]
        /\ published' = [published EXCEPT ![id] =
                            IF broker[id] = Panic THEN @ ELSE @ + 1]
    /\ permits' = [permits EXCEPT ![p] = @ + 1]
    /\ UNCHANGED <<now, confVars, requests, claimed, pc, ticks, cnow, locked,
                   batch, joined, updates>>

\* some running task of the batch ends
TaskEnd(p) == \E i \in 1..Len(tasks[p]) : TaskFinish(p, i)

\* faulty variant: a publish begins for a row whose task is not spawned yet
TaskStartUnspawned(p, i) ==
    /\ i \in 1..Len(batch[p])
    /\ batch[p][i] \notin Range(started)
    /\ started' = Append(started, batch[p][i])
    /\ UNCHANGED <<now, batch_size, broker, signalled, call, contents, results,
                   opens, response, timer, delivered, main, api_key, http,
                   storeVars, procVars>>

\* the runtime polls a spawned task for the first time: its async block
\* takes the permit and calls publish_email
TaskStart(p, i) ==
    /\ i \in 1..Len(tasks[p])
    /\ tasks[p][i] = "running"
    /\ batch[p][i] \notin Range(started)
    /\ started' = Append(started, batch[p][i])
    /\ UNCHANGED <<now, batch_size, broker, signalled, call, contents, results,
                   opens, response, timer, delivered, main, api_key, http,
                   storeVars, procVars>>

\* some spawned task of the batch is polled for the first time
TaskBegin(p) == \E i \in 1..Len(batch[p]) : TaskStart(p, i)

\* some task that has begun its publish ends
StartedTaskEnd(p) ==
    \E i \in 1..Len(tasks[p]) :
        batch[p][i] \in Range(started) /\ TaskFinish(p, i)

\* faulty variant: one batch per tick
AfterBatchOnce(batch_count) == "wait"

\* faulty variant: the tick ends after a batch that was not full
AfterBatchBreak(batch_count) ==
    IF batch_count = batch_size THEN "pause" ELSE "wait"

\* where the loop goes after a batch of batch_count updates:
\* the 100 ms sleep after a full batch, else straight to the next claim
AfterBatch(batch_count) ==
    IF batch_count = batch_size THEN "pause" ELSE "claim"

\* faulty variant: a failed publish puts the request back to Created for a retry
UpdateOfRetry(id, result) ==
    CASE result = "ok" -> <<[id |-> id, status |-> Sent, error |-> None]>>
      [] result = "err" ->
            <<[id |-> id, status |-> Created, error |-> Some(NatsError)]>>
      [] result = "panic" -> <<>>

\* faulty variant: a panicked task is recorded as a failed publish
UpdateOfPanicFailed(id, result) ==
    CASE result = "ok" -> <<[id |-> id, status |-> Sent, error |-> None]>>
      [] result = "err" ->
            <<[id |-> id, status |-> Failed, error |-> Some(NatsError)]>>
      [] result = "panic" ->
            <<[id |-> id, status |-> Failed, error |-> Some(NatsError)]>>

\* the entry of `updates` for an awaited task, if it has one
UpdateOf(id, result) ==
    CASE result = "ok" -> <<[id |-> id, status |-> Sent, error |-> None]>>
      [] result = "err" ->
            <<[id |-> id, status |-> Failed, error |-> Some(NatsError)]>>
      [] result = "panic" -> <<>>

\* for task in tasks: task.await, in order; after the last one the loop
\* goes to bulk_update_requests, or past it when updates is empty
Collect(p) ==
    /\ pc[p] = "collect"
    /\ joined[p] < Len(tasks[p])
    /\ LET i == joined[p] + 1
           ups == updates[p] \o UpdateOf(batch[p][i], tasks[p][i])
       IN
        /\ tasks[p][i] # "running"
        /\ IF i < Len(tasks[p])
           THEN /\ joined' = [joined EXCEPT ![p] = i]
                /\ updates' = [updates EXCEPT ![p] = ups]
                /\ UNCHANGED <<pc, batch, permits, tasks>>
           ELSE IF ups # <<>>
           THEN /\ joined' = [joined EXCEPT ![p] = i]
                /\ updates' = [updates EXCEPT ![p] = ups]
                /\ pc' = [pc EXCEPT ![p] = "reconcile"]
                /\ UNCHANGED <<batch, permits, tasks>>
           ELSE /\ pc' = [pc EXCEPT ![p] = AfterBatch(0)]
                /\ NoBatch(p)
    /\ UNCHANGED <<now, confVars, storeVars, ticks, cnow, locked>>

(* ----------------------------- reconcile ------------------------------ *)
\* faulty variant: the UPDATE of the reconciler leaves the error column alone
UpdateRowKeepError(rows, u, t) ==
    [i \in 1..Len(rows) |->
        IF i = u.id
        THEN [rows[i] EXCEPT !.status = u.status, !.updated_at = t]
        ELSE rows[i]]

\* UPDATE email_requests SET status, error, updated_at WHERE id = u.id;
\* no row has the id of a deleted one (rows_affected = 0)
UpdateRow(rows, u, t) ==
    [i \in 1..Len(rows) |->
        IF i = u.id /\ rows[i].status # Deleted
        THEN [rows[i] EXCEPT !.status = u.status, !.error = u.error,
                             !.updated_at = t]
        ELSE rows[i]]

\* faulty variant: an update that finds no row fails the whole transaction
bulk_update_or_abort(rows, ups, t) ==
    IF \E k \in 1..Len(ups) : rows[ups[k].id].status = Deleted THEN rows
    ELSE [i \in 1..Len(rows) |->
            IF \E k \in 1..Len(ups) : ups[k].id = i
            THEN LET u == ups[CHOOSE k \in 1..Len(ups) : ups[k].id = i]
                 IN  [rows[i] EXCEPT !.status = u.status, !.error = u.error,
                                     !.updated_at = t]
            ELSE rows[i]]

\* faulty variant: the updates stop at the first failed outcome
RECURSIVE bulk_update_until_failed(_, _, _)
bulk_update_until_failed(rows, ups, t) ==
    IF ups = <<>> \/ Head(ups).status = Failed THEN rows
    ELSE bulk_update_until_failed(UpdateRow(rows, Head(ups), t), Tail(ups), t)

\* SchedulerService::bulk_update_requests: every update, in order
RECURSIVE bulk_update_requests(_, _, _)
bulk_update_requests(rows, ups, t) ==
    IF ups = <<>> THEN rows
    ELSE bulk_update_requests(UpdateRow(rows, Head(ups), t), Tail(ups), t)

\* faulty variant: the reconciler also deletes the result rows of its batch
ReconcileCommitPurge(p) ==
    /\ pc[p] = "reconcile"
    /\ requests' = bulk_update_requests(requests, updates[p], now)
    /\ results' = SelectSeq(results,
                    LAMBDA r : r.request_id \notin Range(batch[p]))
    /\ pc' = [pc EXCEPT ![p] = AfterBatch(Len(updates[p]))]
    /\ NoBatch(p)
    /\ UNCHANGED <<now, batch_size, broker, signalled, call, contents, opens,
                   response, timer, started, delivered, main, api_key, http,
                   published, claimed,
                   ticks, cnow, locked>>

\* the reconcile transaction commits; the loop sleeps or claims again
ReconcileCommit(p) ==
    /\ pc[p] = "reconcile"
    /\ requests' = bulk_update_requests(requests, updates[p], now)
    /\ pc' = [pc EXCEPT ![p] = AfterBatch(Len(updates[p]))]
    /\ NoBatch(p)
    /\ UNCHANGED <<now, confVars, published, claimed, ticks, cnow, locked>>

\* tokio::time::sleep(100 ms) is over
PauseEnd(p) ==
    /\ pc[p] = "pause"
    /\ pc' = [pc EXCEPT ![p] = "claim"]
    /\ UNCHANGED <<now, confVars, storeVars, ticks, cnow, locked, batch,
                   permits, tasks, joined, updates>>

(* --------------------------- store failures --------------------------- *)
\* faulty variant: the error of the claim statement ends run()
ClaimErrorFatal(p) ==
    /\ pc[p] \in {"claim", "locked"}
    /\ locked' = [locked EXCEPT ![p] = <<>>]
    /\ cnow' = [cnow EXCEPT ![p] = 0]
    /\ pc' = [pc EXCEPT ![p] = "returned"]
    /\ UNCHANGED <<now, confVars, storeVars, ticks, batch, permits, tasks,
                   joined, updates>>

\* the claim statement fails (`?` at fetch_all): nothing is written, its
\* locks are gone, run() logs the error and waits for the next tick
ClaimError(p) ==
    /\ pc[p] \in {"claim", "locked"}
    /\ locked' = [locked EXCEPT ![p] = <<>>]
    /\ cnow' = [cnow EXCEPT ![p] = 0]
    /\ pc' = [pc EXCEPT ![p] = "wait"]
    /\ UNCHANGED <<now, confVars, storeVars, ticks, batch, permits, tasks,
                   joined, updates>>

\* faulty variant: every UPDATE is committed on its own
tx_autocommit(before, written) == written

\* a sqlx Transaction dropped without commit: what it wrote is rolled back
tx_rollback(before, written) == before

\* begin, the UPDATE after the first k ones, or the commit of
\* bulk_update_requests fails: `?` drops the transaction and the error ends
\* the cycle
ReconcileError(p) ==
    /\ pc[p] = "reconcile"
    /\ \E k \in 0..Len(updates[p]) :
            requests' = tx_rollback(requests,
                            bulk_update_requests(requests,
                                SubSeq(updates[p], 1, k), now))
    /\ pc' = [pc EXCEPT ![p] = "wait"]
    /\ NoBatch(p)
    /\ UNCHANGED <<now, confVars, published, claimed, ticks, cnow, locked>>

(* ------------------------- process life cycle ------------------------- *)
\* the process dies: its tasks and local variables are gone, an open claim
\* statement is rolled back
Crash(p) ==
    /\ pc[p] # "down"
    /\ pc' = [pc EXCEPT ![p] = "down"]
    /\ locked' = [locked EXCEPT ![p] = <<>>]
    /\ cnow' = [cnow EXCEPT ![p] = 0]
    /\ NoBatch(p)
    /\ UNCHANGED <<now, confVars, storeVars, ticks>>

\* main starts the scheduler again: SchedulerService::run
Restart(p) ==
    /\ pc[p] = "down"
    /\ pc' = [pc EXCEPT ![p] = "wait"]
    /\ UNCHANGED <<now, confVars, storeVars, ticks, cnow, locked, batch,
                   permits, tasks, joined, updates>>

(* ------------------------------ ingress ------------------------------- *)
\* faulty variant: every error is answered with 500
ErrorStatusInternal(e) == "INTERNAL_SERVER_ERROR"

\* AppError::into_response: the status code of an error
ErrorStatus(e) ==
    CASE e = "Validation" -> "BAD_REQUEST"
      [] e = "Uuid" -> "INTERNAL_SERVER_ERROR"
      [] e = "Database" -> "INTERNAL_SERVER_ERROR"
      [] e = "Unauthorized" -> "UNAUTHORIZED"

\* scheduled_at values a client sends
SchedInputs ==
    {None, Some(MaxTime), Some(0 - PastLimit - 1)}

\* "Scheduled time cannot be more than 1 hour in the past"
ScheduleValid(sched, t) == IsNone(sched) \/ Unwrap(sched) >= t - PastLimit

\* the response of create_message: Ok(Json(CreateMessageResponse { count, .. }))
\* or the response of its error
MessagesResponse(status, count) ==
    [route |-> "messages", key |-> <<>>, query |-> "none", handler |-> TRUE,
     status |-> status, count |-> count]

\* the rows the transaction of create_message has written after the first n
\* messages: a content row and a Created request row per message
WrittenContents(msgs, n) ==
    contents \o [k \in 1..n |-> NewContent(now)]

WrittenRequests(msgs, n) ==
    requests \o [k \in 1..n |-> NewRequest(Len(contents) + k, msgs[k], now)]

\* the publish and claim counters of the rows that were committed
Counted(counters, rows) ==
    [i \in 1..Len(rows) |-> IF i <= Len(counters) THEN counters[i] ELSE 0]

\* create_message: one transaction inserts a content row and a Created row
\* per message and commits; a message scheduled too far in the past returns
\* the validation error, which drops the transaction with the rows of the
\* messages before it
CreateMessage(msgs) ==
    /\ Len(requests) + Len(msgs) <= MaxRequests
    /\ LET bad == {k \in 1..Len(msgs) : ~ScheduleValid(msgs[k], now)}
           n == IF bad = {} THEN Len(msgs)
                ELSE (CHOOSE k \in bad : \A j \in bad : k <= j) - 1
       IN  IF bad = {}
           THEN /\ contents' = WrittenContents(msgs, n)
                /\ requests' = WrittenRequests(msgs, n)
                /\ http' = MessagesResponse("OK", n)
           ELSE /\ contents' = tx_rollback(contents, WrittenContents(msgs, n))
                /\ requests' = tx_rollback(requests, WrittenRequests(msgs, n))
                /\ http' = MessagesResponse(ErrorStatus("Validation"), 0)
    /\ published' = Counted(published, requests')
    /\ claimed' = Counted(claimed, requests')
    /\ UNCHANGED <<now, batch_size, broker, signalled, call, results, opens,
                   response, timer, started, delivered, main, api_key, procVars>>

\* an INSERT or the commit of create_message fails after n messages were
\* written: `?` drops the transaction
CreateMessageError(msgs, n) ==
    /\ Len(requests) + Len(msgs) <= MaxRequests
    /\ n \in 0..Len(msgs)
    /\ {j \in 1..n : ~ScheduleValid(msgs[j], now)} = {}
    /\ contents' = tx_rollback(contents, WrittenContents(msgs, n))
    /\ requests' = tx_rollback(requests, WrittenRequests(msgs, n))
    /\ http' = MessagesResponse(ErrorStatus("Database"), 0)
    /\ published' = Counted(published, requests')
    /\ claimed' = Counted(claimed, requests')
    /\ UNCHANGED <<now, batch_size, broker, signalled, call, results, opens,
                   response, timer, started, delivered, main, api_key, procVars>>

\* time passes
Advance ==
    /\ now < MaxTime
    /\ now' = now + 1
    /\ UNCHANGED <<confVars, storeVars, procVars>>

(* ----------------------- administrative action ------------------------ *)
\* the external Stop of section 4.5: Created -> Stopped, Processing -> Stopped
Stop(i) ==
    /\ i \in Ids
    /\ i \notin LockedIds
    /\ requests[i].status \in {Created, Processing}
    /\ requests' = [requests EXCEPT ![i].status = Stopped,
                                    ![i].updated_at = now]
    /\ UNCHANGED <<now, confVars, published, claimed, procVars>>

(* --------------------------- published body --------------------------- *)
\* strings are sequences of pieces of text
Texts == {"a", "b", "<"}

RECURSIVE StringsUpTo(_)
StringsUpTo(n) ==
    IF n = 0 THEN {<<>>}
    ELSE LET shorter == StringsUpTo(n - 1) IN
         shorter \cup {Append(s, c) : s \in shorter, c \in Texts}

\* config.server.host
Hosts == {<<>>, <<"h">>, <<"h", "/">>}

\* Display of the request's Uuid
uuid_to_string(id) == <<ToString(id)>>

\* EmailRequestWithContent::generate_tracking_pixel
generate_tracking_pixel(request, server_host) ==
    <<"<img src=\"">> \o server_host \o <<"/v1/events/open?requestId=">>
        \o uuid_to_string(request.id)
        \o <<"\" width=\"1\" height=\"1\" style=\"display:none;\" alt=\"\">">>

\* faulty variant: the pixel is put in front of the content
tracking_then_content(request, server_host) ==
    generate_tracking_pixel(request, server_host)
        \o (IF IsNone(request.content) THEN <<>> ELSE Unwrap(request.content))

\* EmailRequestWithContent::content_with_tracking
content_with_tracking(request, server_host) ==
    LET content == IF IsNone(request.content) THEN <<>>
                   ELSE Unwrap(request.content)
    IN  content \o generate_tracking_pixel(request, server_host)

\* no call of content_with_tracking is looked at
NoCall ==
    [request |-> [id |-> 0, content |-> None], server_host |-> <<>>,
     body |-> None]

\* ProducerService::publish_email composes the body of the payload
ComposeBody ==
    /\ IsNone(call.body)
    /\ call.request.id # 0
    /\ call' = [call EXCEPT !.body =
                    Some(content_with_tracking(call.request, call.server_host))]
    /\ UNCHANGED <<now, batch_size, broker, signalled, sideVars, storeVars,
                   procVars>>

(* -------------------------- status functions -------------------------- *)
\* can_transition_to is called on the pair of the call
CallCanTransition ==
    /\ IsNone(call.allowed)
    /\ call' = [call EXCEPT !.allowed =
                    Some(can_transition_to(call.from, call.to))]
    /\ UNCHANGED <<now, batch_size, broker, signalled, sideVars, storeVars,
                   procVars>>

\* is_terminal is called on the first status of the call
CallIsTerminal ==
    /\ IsNone(call.terminal)
    /\ call' = [call EXCEPT !.terminal = Some(is_terminal(call.from))]
    /\ UNCHANGED <<now, batch_size, broker, signalled, sideVars, storeVars,
                   procVars>>

\* the first status of the call is cast to its storage code
CallStatusCode ==
    /\ IsNone(call.code)
    /\ call' = [call EXCEPT !.code = Some(StatusCode(call.from))]
    /\ UNCHANGED <<now, batch_size, broker, signalled, sideVars, storeVars,
                   procVars>>

(* --------------------------- result events ---------------------------- *)
\* notification_type values the provider sends
ResultStatuses == {"Delivery", "Open"}

\* the envelopes POSTed to create_result_event: a subscription
\* confirmation, another message type, notifications whose message cannot
\* be used, and notifications for a request
SnsMessages(ids) ==
    {[type |-> t, parse |-> "none", request_id |-> 0, status |-> "none"] :
        t \in {"SubscriptionConfirmation", "UnsubscribeConfirmation"}}
    \cup
    {[type |-> "Notification", parse |-> e, request_id |-> 0,
      status |-> "none"] : e \in {"bad_json", "no_tag", "bad_uuid"}}
    \cup
    {[type |-> "Notification", parse |-> "ok", request_id |-> i,
      status |-> st] : i \in ids, st \in ResultStatuses}

\* a row of email_results
NewResult(rid, st, raw) == [request_id |-> rid, status |-> st, raw |-> raw]

\* faulty variant: email_results without its unique index
NoUniqueIndex(rows, rid, st) == FALSE

\* the unique index on (request_id, status) that ON CONFLICT names
UniqueViolation(rows, rid, st) ==
    \E k \in 1..Len(rows) :
        rows[k].request_id = rid /\ rows[k].status = st

\* create_result_event
CreateResultEvent(msg) ==
    /\ IF msg.type # "Notification"
       THEN /\ response' = [request |-> msg, status |-> "OK"]
            /\ UNCHANGED <<results, delivered>>
       ELSE IF msg.parse \in {"bad_json", "no_tag"}
       THEN /\ response' = [request |-> msg,
                            status |-> ErrorStatus("Validation")]
            /\ UNCHANGED <<results, delivered>>
       ELSE IF msg.parse = "bad_uuid"
       THEN /\ response' = [request |-> msg, status |-> ErrorStatus("Uuid")]
            /\ UNCHANGED <<results, delivered>>
       ELSE /\ delivered' = delivered \cup {<<msg.request_id, msg.status>>}
            /\ IF UniqueViolation(results, msg.request_id, msg.status)
               THEN /\ response' = [request |-> msg,
                                    status |-> ErrorStatus("Database")]
                    /\ UNCHANGED results
               ELSE /\ results' = Append(results,
                            NewResult(msg.request_id, msg.status, "sns"))
                    /\ response' = [request |-> msg, status |-> "OK"]
    /\ UNCHANGED <<now, batch_size, broker, signalled, call, contents, opens,
                   timer, started, main, api_key, http, storeVars, procVars>>

\* the requestId of the query string of GET /v1/events/open: a UUID, a
\* string that is no UUID, or no such parameter
OpenQueries == {"valid", "malformed", "missing"}

\* the response of create_open_event: 200 with the 1x1 PNG
PngResponse(query) ==
    [route |-> "open", key |-> <<>>, query |-> query, handler |-> TRUE,
     status |-> "OK_PNG", count |-> 0]

\* faulty variant: a requestId that is missing or no UUID is a bad request
CreateOpenEventStrict(query, rid) ==
    /\ Len(opens) < MaxPending
    /\ IF query = "valid"
       THEN /\ opens' = Append(opens, rid)
            /\ delivered' = delivered \cup {<<rid, "Open">>}
            /\ http' = PngResponse(query)
       ELSE /\ http' = [PngResponse(query) EXCEPT !.status = "BAD_REQUEST"]
            /\ UNCHANGED <<opens, delivered>>
    /\ UNCHANGED <<now, batch_size, broker, signalled, call, contents, results,
                   response, timer, started, main, api_key, storeVars, procVars>>

\* create_open_event: a requestId that parses spawns the insert; the PNG is
\* returned at once in every case
CreateOpenEvent(query, rid) ==
    /\ Len(opens) < MaxPending
    /\ IF query = "valid"
       THEN /\ opens' = Append(opens, rid)
            /\ delivered' = delivered \cup {<<rid, "Open">>}
       ELSE UNCHANGED <<opens, delivered>>
    /\ http' = PngResponse(query)
    /\ UNCHANGED <<now, batch_size, broker, signalled, call, contents, results,
                   response, timer, started, main, api_key, storeVars, procVars>>

\* a spawned insert of create_open_event runs:
\* INSERT ... ON CONFLICT (request_id, status) DO NOTHING
OpenRecord(k) ==
    /\ k \in 1..Len(opens)
    /\ results' = IF UniqueViolation(results, opens[k], "Open") THEN results
                  ELSE Append(results, NewResult(opens[k], "Open", "pixel"))
    /\ opens' = SubSeq(opens, 1, k - 1) \o SubSeq(opens, k + 1, Len(opens))
    /\ UNCHANGED <<now, batch_size, broker, signalled, call, contents,
                   response, timer, started, delivered, main, api_key, http,
                   storeVars, procVars>>

\* a spawned insert of create_open_event fails: the task logs a warning
OpenError(k) ==
    /\ k \in 1..Len(opens)
    /\ opens' = SubSeq(opens, 1, k - 1) \o SubSeq(opens, k + 1, Len(opens))
    /\ UNCHANGED <<now, batch_size, broker, signalled, call, contents, results,
                   response, timer, started, delivered, main, api_key, http,
                   storeVars, procVars>>

(* ------------------------------ shutdown ------------------------------ *)
\* signal::ctrl_c() resolves in the select! of main; the scheduler task is
\* not told and runs on
Signal(p) ==
    /\ pc[p] \notin {"down", "exited"}
    /\ ~signalled[p]
    /\ signalled' = [signalled EXCEPT ![p] = TRUE]
    /\ UNCHANGED <<now, batch_size, broker, call, sideVars, storeVars,
                   procVars>>

\* main returns Ok(()) after the select!: the runtime is dropped and the
\* scheduler task with it, wherever it stands; an open claim statement is
\* rolled back
Exit(p) ==
    /\ signalled[p]
    /\ pc[p] \notin {"down", "exited"}
    /\ pc' = [pc EXCEPT ![p] = "exited"]
    /\ locked' = [locked EXCEPT ![p] = <<>>]
    /\ cnow' = [cnow EXCEPT ![p] = 0]
    /\ NoBatch(p)
    /\ UNCHANGED <<now, confVars, storeVars, ticks>>

(* --------------------------- specifications --------------------------- *)
\* main() past line 74: the producer was built, both services were spawned
MainRunning == [producer |-> "ok", scheduler |-> TRUE, server |-> TRUE,
                exit |-> "none"]

\* no HTTP request was made yet
NoExchange == [route |-> "none", key |-> <<>>, query |-> "none",
               handler |-> FALSE, status |-> "none", count |-> 0]

\* the API key of the configuration the services were started with
ConfiguredKey == <<"a">>

\* the scheduler loops wait for their first tick, nothing was served yet
LoopInit ==
    /\ pc = [p \in Procs |-> "wait"]
    /\ ticks = [p \in Procs |-> 0]
    /\ cnow = [p \in Procs |-> 0]
    /\ locked = [p \in Procs |-> <<>>]
    /\ batch = [p \in Procs |-> <<>>]
    /\ permits = [p \in Procs |-> Permits]
    /\ tasks = [p \in Procs |-> <<>>]
    /\ joined = [p \in Procs |-> 0]
    /\ updates = [p \in Procs |-> <<>>]
    /\ signalled = [p \in Procs |-> FALSE]
    /\ results = <<>>
    /\ opens = <<>>
    /\ response = [request |-> [type |-> "none", parse |-> "none",
                                request_id |-> 0, status |-> "none"],
                   status |-> "none"]
    /\ timer = [p \in Procs |-> [due |-> 1, skipped |-> 0]]
    /\ started = <<>>
    /\ delivered = {}
    /\ main = [p \in Procs |-> MainRunning]
    /\ http = NoExchange

ProcInit ==
    /\ api_key = ConfiguredKey
    /\ LoopInit

Init ==
    /\ now = 0
    /\ batch_size \in 1..BatchSize
    /\ requests = <<>>
    /\ contents = <<>>
    /\ broker \in [1..MaxRequests -> BrokerOutcome]
    /\ published = <<>>
    /\ claimed = <<>>
    /\ ProcInit
    /\ call = NoCall

\* one step of process_scheduled_emails in process p without a failure
CycleBody(p) ==
    \/ ClaimSelect(p)
    \/ ClaimCommit(p)
    \/ Spawn(p)
    \/ TaskEnd(p)
    \/ Collect(p)
    \/ ReconcileCommit(p)
    \/ PauseEnd(p)

\* one step of the scheduler loop of process p without a failure
Cycle(p) == TickFire(p) \/ CycleBody(p)

Failure(p) ==
    \/ ClaimError(p)
    \/ ReconcileError(p)
    \/ Crash(p)
    \/ Restart(p)

Ingress ==
    \E n \in 1..2 : \E msgs \in [1..n -> SchedInputs] : CreateMessage(msgs)

\* the core alone: ingress, scheduler processes, failures
Next ==
    \/ \E p \in Procs : Cycle(p) \/ Failure(p)
    \/ Ingress
    \/ Advance

Spec == Init /\ [][Next]_vars

\* the core with the external administrative Stop
Admin == \E i \in Ids : Stop(i)

NextAdmin ==
    \/ Next
    \/ Admin

SpecAdmin == Init /\ [][NextAdmin]_vars

(* ------------------------------ scenarios ----------------------------- *)
\* n due rows, inserted one per instant and not yet claimed; the broker
\* acknowledges every publish, or fails the second and panics on the third
BrokerPlans(n) ==
    {[i \in 1..n |-> Ack],
     [i \in 1..n |-> IF i = 2 THEN Nack ELSE IF i = 3 THEN Panic ELSE Ack]}

Backlog(n, b) ==
    /\ now = n
    /\ batch_size = b
    /\ requests = [i \in 1..n |-> NewRequest(i, None, i)]
    /\ contents = [i \in 1..n |-> NewContent(i)]
    /\ broker \in BrokerPlans(n)
    /\ published = [i \in 1..n |-> 0]
    /\ claimed = [i \in 1..n |-> 0]
    /\ ProcInit
    /\ call = NoCall

\* the scheduler loops alone, without a failure
NextCycle == \E p \in Procs : Cycle(p)

\* a row of email_requests is deleted from outside (no statement of the
\* service deletes one); the DELETE waits for the lock of an open claim
Remove(i) ==
    /\ i \in Ids
    /\ i \notin LockedIds
    /\ requests[i].status # Deleted
    /\ requests' = [requests EXCEPT ![i].status = Deleted]
    /\ UNCHANGED <<now, confVars, published, claimed, procVars>>

Removal == \E i \in Ids : Remove(i)

NextRemove ==
    \/ NextCycle
    \/ Removal

\* the scheduler loops over a backlog while rows are deleted from outside
SpecRemove == Backlog(MaxRequests, BatchSize) /\ [][NextRemove]_vars

\* S5: two scheduler loops, ScenarioRows due rows, BATCH_SIZE ScenarioBatch
SpecTwoLoops == Backlog(ScenarioRows, ScenarioBatch) /\ [][NextCycle]_vars

\* one batch of WideRows rows, more than the semaphore has permits
SpecWide == Backlog(WideRows, WideRows) /\ [][NextCycle]_vars

\* backlogs of OrderRows rows with every mix of null, due and later
\* schedules; the first row was inserted before the others
MixedBacklog ==
    /\ now = 0
    /\ batch_size \in 1..BatchSize
    /\ \E sch \in [1..OrderRows -> {None} \cup {Some(t) : t \in 0..MaxTime}] :
          requests = [i \in 1..OrderRows |->
                        NewRequest(i, sch[i], IF i = 1 THEN 0 - 1 ELSE 0)]
    /\ contents = [i \in 1..OrderRows |-> NewContent(IF i = 1 THEN 0 - 1 ELSE 0)]
    /\ broker = [i \in 1..OrderRows |-> Ack]
    /\ published = [i \in 1..OrderRows |-> 0]
    /\ claimed = [i \in 1..OrderRows |-> 0]
    /\ ProcInit
    /\ call = NoCall

\* the scheduler loops over a backlog while time passes and claim
\* statements may fail
NextOrder ==
    \/ \E p \in Procs : Cycle(p) \/ ClaimError(p)
    \/ Advance

SpecOrder == MixedBacklog /\ [][NextOrder]_vars

(* ------------------------------- claims ------------------------------- *)
RECURSIVE SumSeq(_)
SumSeq(q) == IF q = <<>> THEN 0 ELSE Head(q) + SumSeq(Tail(q))

Status(i) == requests[i].status
BatchesOf(i) == {p \in Procs : i \in Range(batch[p])}
NoRepeat(q) == \A a, b \in 1..Len(q) : q[a] = q[b] => a = b

\* C1: with concurrent claimers no request id is returned by two claim
\* calls, the number of rows claimed never exceeds the number of rows
\* inserted as Created, and a row in Processing is in the in-flight batch
\* of at most one process.
ClaimMutualExclusion ==
    /\ \A i \in Ids : claimed[i] <= 1
    /\ SumSeq(claimed) <= Len(requests)
    /\ \A p \in Procs : NoRepeat(batch[p])
    /\ \A i \in Ids : Status(i) = Processing => Cardinality(BatchesOf(i)) <= 1

\* two processes hold batches they claimed at the same time
ConcurrentBatches ==
    /\ batch[1] # <<>>
    /\ batch[2] # <<>>
    /\ \A i \in Range(batch[1]) \cup Range(batch[2]) : Status(i) = Processing

\* C2: in the core alone every row is inserted as Created and its status
\* changes only Created -> Processing, by a claim, and
\* Processing -> Sent or Failed, by a reconcile.
CoreTransitions ==
    [][/\ \A i \in 1..Len(requests') : i \notin Ids => requests'[i].status = Created
       /\ \A i \in Ids :
            requests'[i].status # Status(i) =>
                \/ /\ Status(i) = Created
                   /\ requests'[i].status = Processing
                   /\ \E p \in Procs : pc[p] = "locked" /\ pc'[p] = "spawn"
                \/ /\ Status(i) = Processing
                   /\ requests'[i].status \in {Sent, Failed}
                   /\ \E p \in Procs : pc[p] = "reconcile"
                                      /\ pc'[p] \in {"pause", "claim"}]_vars

\* one row went all the way to Sent and another to Failed
SentAndFailed ==
    \E i, j \in Ids : Status(i) = Sent /\ Status(j) = Failed

\* C3: Sent, Failed and Stopped are absorbing, also when the external Stop
\* hits a row between its claim and its reconcile.
TerminalAbsorbing ==
    [][\A i \in Ids :
          Status(i) \in {Sent, Failed, Stopped} => requests'[i].status = Status(i)]_vars

\* C4: every request is published at most once, and a Sent request was
\* published exactly once, across processes, ticks, crashes and restarts.
PublishedOnce ==
    \A i \in Ids :
        /\ published[i] <= 1
        /\ Status(i) = Sent => published[i] = 1

\* a request was published by a process that crashed before reconciling it,
\* next to a request that was sent
PublishedThenCrashed ==
    \E i, j \in Ids :
        /\ Status(i) = Processing /\ published[i] = 1 /\ BatchesOf(i) = {}
        /\ \E p \in Procs : pc[p] \in {"claim", "locked"}
        /\ Status(j) = Sent

\* C5: a claim at time t moves to Processing only rows that are Created and
\* whose scheduled_at is null or <= t; every other row keeps its status.
ClaimOnlyDue ==
    [][\A p \in Procs :
          (pc[p] = "locked" /\ pc'[p] \in {"spawn", "wait"}) =>
              \A i \in Ids :
                  \/ /\ Status(i) = Created
                     /\ \/ requests[i].scheduled_at = <<>>
                        \/ requests[i].scheduled_at[1] <= cnow[p]
                  \/ requests'[i] = requests[i]]_vars

\* a claim took a due row and left a row scheduled for later in Created
FutureRowLeft ==
    \E i, j \in Ids :
        /\ j < i
        /\ Status(i) = Processing
        /\ Status(j) = Created
        /\ requests[j].scheduled_at # <<>>
        /\ requests[j].scheduled_at[1] > now

\* the order of the claim as the specification states it: rows without
\* scheduled_at first, then scheduled_at ascending, then created_at ascending
RankedBefore(a, b) ==
    LET ra == requests[a]
        rb == requests[b]
    IN  IF ra.scheduled_at = <<>> /\ rb.scheduled_at = <<>>
        THEN ra.created_at < rb.created_at
        ELSE IF ra.scheduled_at = <<>> THEN TRUE
        ELSE IF rb.scheduled_at = <<>> THEN FALSE
        ELSE \/ ra.scheduled_at[1] < rb.scheduled_at[1]
             \/ /\ ra.scheduled_at[1] = rb.scheduled_at[1]
                /\ ra.created_at < rb.created_at

DueAt(i, t) ==
    requests[i].scheduled_at = <<>> \/ requests[i].scheduled_at[1] <= t

\* C6 as stated: the batch of a claim is the head of the eligible rows in
\* the order, and no eligible row is left Created by a claim that takes a
\* row ranked after it.
NoEligibleRowLeft ==
    [][\A p \in Procs :
          (pc[p] = "locked" /\ pc'[p] = "spawn") =>
              \A a \in Range(locked[p]) : \A b \in Ids :
                  (/\ Status(b) = Created
                   /\ DueAt(b, cnow[p])
                   /\ requests'[b].status = Created) => ~RankedBefore(b, a)]_vars

\* C6 as amended: the batch a claim selects is the first batch_size rows, in
\* the order, of the rows that are Created, due and not locked by another
\* claim at that moment, and exactly these rows become Processing.
ClaimTakesHeadOfUnlocked ==
    [][\A p \in Procs :
          /\ (pc[p] = "claim" /\ pc'[p] = "locked") =>
                LET E == {i \in Ids : /\ Status(i) = Created
                                      /\ DueAt(i, now)
                                      /\ \A q \in Procs : i \notin Range(locked[q])}
                    sel == locked'[p]
                IN  /\ Range(sel) \subseteq E
                    /\ NoRepeat(sel)
                    /\ Len(sel) = Min(batch_size, Cardinality(E))
                    /\ \A k, l \in 1..Len(sel) :
                          k < l => ~RankedBefore(sel[l], sel[k])
                    /\ \A a \in Range(sel) : \A b \in E \ Range(sel) :
                          ~RankedBefore(b, a)
          /\ (pc[p] = "locked" /\ pc'[p] = "spawn") =>
                \A i \in Ids :
                    (Status(i) # Processing /\ requests'[i].status = Processing)
                        <=> i \in Range(locked[p])]_vars

\* a claim holds a row with the earlier schedule and leaves an unlocked due
\* row that was inserted first but is scheduled later
EarlierScheduleTaken ==
    \E p \in Procs : \E a \in Range(locked[p]) : \E b \in Ids :
        /\ pc[p] = "locked"
        /\ Status(b) = Created
        /\ \A q \in Procs : b \notin Range(locked[q])
        /\ requests[a].scheduled_at # <<>>
        /\ requests[b].scheduled_at # <<>>
        /\ requests[b].scheduled_at[1] <= cnow[p]
        /\ requests[a].scheduled_at[1] < requests[b].scheduled_at[1]
        /\ requests[a].created_at > requests[b].created_at

\* C7: a claim returns at most batch_size rows; after one tick of each of two
\* scheduler loops over a backlog of due rows every row was claimed exactly
\* once, in disjoint batches of at most batch_size rows.
BoundedDisjointBatches ==
    /\ \A p \in Procs : Len(locked[p]) <= batch_size /\ Len(batch[p]) <= batch_size
    /\ \A p, q \in Procs : p # q => Range(batch[p]) \cap Range(batch[q]) = {}
    /\ (\A p \in Procs : ticks[p] >= 1 /\ pc[p] = "wait") =>
            /\ \A i \in Ids : claimed[i] = 1
            /\ SumSeq(claimed) = Len(requests)

\* both loops hold a full batch at once and the backlog is all claimed
TwoFullBatches ==
    /\ \A p \in Procs : Len(batch[p]) = batch_size
    /\ SumSeq(claimed) = Len(requests)
    /\ Len(requests) > batch_size

\* C8: at most 10 publishes of a batch are started and not yet completed.
Running(p) == {k \in 1..Len(tasks[p]) : tasks[p][k] = "running"}

BoundedInFlight == \A p \in Procs : Cardinality(Running(p)) <= 10

\* ten publishes in flight and a request of the batch still waits for a permit
PermitsExhausted ==
    \E p \in Procs :
        /\ Cardinality(Running(p)) = 10
        /\ Len(tasks[p]) < Len(batch[p])

\* C9: a failed publish is per-row: reconcile sets the request whose publish
\* failed to Failed with an error text and every acknowledged request of the
\* same batch to Sent.
FailurePerRow ==
    [][\A p \in Procs :
          (pc[p] = "reconcile" /\ pc'[p] \in {"pause", "claim"}) =>
              \A k \in 1..Len(batch[p]) :
                  LET i == batch[p][k] IN
                      /\ broker[i] = Nack =>
                            /\ requests'[i].status = Failed
                            /\ requests'[i].error # <<>>
                      /\ broker[i] = Ack =>
                            /\ requests'[i].status = Sent
                            /\ requests'[i].error = <<>>]_vars

\* a batch of two was reconciled: one request Failed with its error, one Sent
OneFailedOneSent ==
    \E p \in Procs : \E i, j \in Ids :
        /\ pc[p] = "pause"
        /\ batch_size = 2
        /\ Status(i) = Failed /\ requests[i].error # <<>>
        /\ Status(j) = Sent
        /\ requests[i].updated_at = requests[j].updated_at

\* C10: after the publish of a request has failed the request is never
\* published again and never claimed again, and it stays Failed once the
\* reconcile has marked it.
NoRetry ==
    [][\A i \in Ids :
          (Status(i) = Failed \/ (broker[i] = Nack /\ published[i] >= 1)) =>
              /\ published'[i] = published[i]
              /\ claimed'[i] = claimed[i]
              /\ Status(i) = Failed => requests'[i].status = Failed]_vars

\* a request is Failed while a later claim is in progress
FailedAndClaimingAgain ==
    \E i \in Ids : \E p \in Procs :
        /\ Status(i) = Failed
        /\ published[i] = 1
        /\ pc[p] = "locked"

\* ---- one scheduler process alone with a backlog, a broker that
\* acknowledges every publish, and no failure
NextDrain == Cycle(1) \/ Advance

SpecDrain == MixedBacklog /\ [][NextDrain]_vars

\* ---- content_with_tracking on every request and host of the bounds
BodyInit ==
    /\ now = 0
    /\ batch_size = 1
    /\ requests = <<>>
    /\ contents = <<>>
    /\ broker = [i \in 1..MaxRequests |-> Ack]
    /\ published = <<>>
    /\ claimed = <<>>
    /\ ProcInit
    /\ \E id \in 1..MaxRequests, h \in Hosts,
          c \in {None} \cup {Some(t) : t \in StringsUpTo(MaxContentLen)} :
            call = [request |-> [id |-> id, content |-> c],
                    server_host |-> h, body |-> None]

SpecBody == BodyInit /\ [][ComposeBody]_vars

\* ---- one scheduler loop with its interval over a backlog
NextTicks == TimedTick(1) \/ CycleBody(1) \/ Deadline(1)

SpecTicks == MixedBacklog /\ [][NextTicks]_vars

\* ---- one scheduler loop whose spawned tasks are run by the runtime when
\* it chooses, over one batch of OrderRows rows
NextStart ==
    \/ TickFire(1)
    \/ ClaimSelect(1)
    \/ ClaimCommit(1)
    \/ Spawn(1)
    \/ TaskBegin(1)
    \/ StartedTaskEnd(1)
    \/ Collect(1)
    \/ ReconcileCommit(1)
    \/ PauseEnd(1)

SpecStart == Backlog(OrderRows, OrderRows) /\ [][NextStart]_vars

\* ---- the functions of EmailStatus on every pair of statuses
StatusInit ==
    /\ now = 0
    /\ batch_size = 1
    /\ requests = <<>>
    /\ contents = <<>>
    /\ broker = [i \in 1..MaxRequests |-> Ack]
    /\ published = <<>>
    /\ claimed = <<>>
    /\ ProcInit
    /\ \E from \in EmailStatus, to \in EmailStatus :
            call = [from |-> from, to |-> to, allowed |-> None,
                    terminal |-> None, code |-> None]

NextStatus == CallCanTransition \/ CallIsTerminal \/ CallStatusCode

SpecStatus == StatusInit /\ [][NextStatus]_vars

\* ---- the result handlers alone, over the requests of a backlog
Webhook == \E msg \in SnsMessages(Ids) : CreateResultEvent(msg)

Pixel == \E query \in OpenQueries, rid \in Ids : CreateOpenEvent(query, rid)

PixelInsert == \E k \in 1..Len(opens) : OpenRecord(k)

NextResults == Webhook \/ Pixel \/ PixelInsert

SpecResults == Backlog(MaxRequests, BatchSize) /\ [][NextResults]_vars

\* ---- one scheduler loop beside the ingress and the result handlers of
\* the first request
WebhookFirst == \E msg \in SnsMessages(Ids \cap {1}) : CreateResultEvent(msg)

PixelFirst == \E rid \in Ids \cap {1} : CreateOpenEvent("valid", rid)

NextCollab ==
    \/ Cycle(1)
    \/ Ingress
    \/ WebhookFirst
    \/ PixelFirst
    \/ PixelInsert

SpecCollab == Init /\ [][NextCollab]_vars

(* ------------------------------ startup ------------------------------- *)
\* main() at line 40: configuration loaded, database connected and migrated
MainStarting == [producer |-> "none", scheduler |-> FALSE, server |-> FALSE,
                 exit |-> "none"]

\* what ProducerService::new returns: Ok, the error of async_nats::connect,
\* the error of get_or_create_stream
ProducerResults == {"ok", "connect_err", "stream_err"}

\* faulty variant: main logs the error of ProducerService::new and goes on
ProducerNewLogged(p, result) ==
    /\ main[p].producer = "none"
    /\ main[p].exit = "none"
    /\ main' = [main EXCEPT ![p].producer = result]
    /\ UNCHANGED <<now, batch_size, broker, signalled, call, contents, results,
                   opens, response, timer, started, delivered, api_key, http,
                   storeVars, procVars>>

\* ProducerService::new(&config.nats).await.context(..)? in main: an Err
\* returns from main, the process exits with an error
ProducerNew(p, result) ==
    /\ main[p].producer = "none"
    /\ main[p].exit = "none"
    /\ main' = [main EXCEPT ![p].producer = result,
                            ![p].exit = IF result = "ok" THEN "none"
                                        ELSE "error"]
    /\ UNCHANGED <<now, batch_size, broker, signalled, call, contents, results,
                   opens, response, timer, started, delivered, api_key, http,
                   storeVars, procVars>>

\* main got past the producer: tokio::spawn of scheduler.run()
SpawnScheduler(p) ==
    /\ main[p].producer # "none"
    /\ main[p].exit = "none"
    /\ ~main[p].scheduler
    /\ pc[p] = "unstarted"
    /\ main' = [main EXCEPT ![p].scheduler = TRUE]
    /\ pc' = [pc EXCEPT ![p] = "wait"]
    /\ UNCHANGED <<now, batch_size, broker, signalled, call, contents, results,
                   opens, response, timer, started, delivered, api_key, http,
                   storeVars, ticks, cnow, locked, batch, permits, tasks,
                   joined, updates>>

\* tokio::spawn of api::server::run
SpawnServer(p) ==
    /\ main[p].scheduler
    /\ main[p].exit = "none"
    /\ ~main[p].server
    /\ main' = [main EXCEPT ![p].server = TRUE]
    /\ UNCHANGED <<now, batch_size, broker, signalled, call, contents, results,
                   opens, response, timer, started, delivered, api_key, http,
                   storeVars, procVars>>

Boot(p) ==
    \/ \E result \in ProducerResults : ProducerNew(p, result)
    \/ SpawnScheduler(p)
    \/ SpawnServer(p)

\* processes about to build their producer, over a backlog of due rows
BootBacklog ==
    /\ now = MaxRequests
    /\ batch_size \in 1..BatchSize
    /\ requests = [i \in 1..MaxRequests |-> NewRequest(i, None, i)]
    /\ contents = [i \in 1..MaxRequests |-> NewContent(i)]
    /\ broker = [i \in 1..MaxRequests |-> Ack]
    /\ published = [i \in 1..MaxRequests |-> 0]
    /\ claimed = [i \in 1..MaxRequests |-> 0]
    /\ pc = [p \in Procs |-> "unstarted"]
    /\ ticks = [p \in Procs |-> 0]
    /\ cnow = [p \in Procs |-> 0]
    /\ locked = [p \in Procs |-> <<>>]
    /\ batch = [p \in Procs |-> <<>>]
    /\ permits = [p \in Procs |-> Permits]
    /\ tasks = [p \in Procs |-> <<>>]
    /\ joined = [p \in Procs |-> 0]
    /\ updates = [p \in Procs |-> <<>>]
    /\ signalled = [p \in Procs |-> FALSE]
    /\ results = <<>>
    /\ opens = <<>>
    /\ response = [request |-> [type |-> "none", parse |-> "none",
                                request_id |-> 0, status |-> "none"],
                   status |-> "none"]
    /\ timer = [p \in Procs |-> [due |-> 1, skipped |-> 0]]
    /\ started = <<>>
    /\ delivered = {}
    /\ main = [p \in Procs |-> MainStarting]
    /\ api_key = ConfiguredKey
    /\ http = NoExchange
    /\ call = NoCall

NextBoot == \E p \in Procs : Boot(p) \/ Cycle(p)

\* processes start up and run their scheduler loops
SpecBoot == BootBacklog /\ [][NextBoot]_vars

\* ---- the tracking pixel with a store that can fail
PixelInsertError == \E k \in 1..Len(opens) : OpenError(k)

NextPixel == Pixel \/ PixelInsert \/ PixelInsertError

SpecPixel == Backlog(MaxRequests, BatchSize) /\ [][NextPixel]_vars

\* ---- ticks over a backlog that nobody adds to: every step of a loop that
\* can be taken is taken in the end (the runtime polls the scheduler task,
\* the store answers, every publish returns or panics)
TickBacklog == \E b \in 1..BatchSize : Backlog(OrderRows, b)

TickFairness == \A p \in Procs : WF_vars(CycleBody(p))

SpecTickLive == TickBacklog /\ [][NextCycle]_vars /\ TickFairness

\* ---- one process and one batch of WideRows rows, more than the semaphore
\* has permits, with every step of the loop and of the tasks taken in the end
NextWideLive == Cycle(1)

SpecWideLive ==
    Backlog(WideRows, WideRows) /\ [][NextWideLive]_vars
        /\ WF_vars(CycleBody(1))

\* ---- create_message with a store that can fail, beside one scheduler loop
IngressError ==
    \E n \in 1..2 : \E msgs \in [1..n -> SchedInputs] : \E done \in 0..n :
        CreateMessageError(msgs, done)

NextIngress ==
    \/ Ingress
    \/ IngressError
    \/ Cycle(1)
    \/ Advance

SpecIngress == Init /\ [][NextIngress]_vars

(* ------------------------------ API key ------------------------------- *)
\* create_app: the routes behind auth_middleware and the routes beside it
ProtectedRoutes == {"messages", "topics", "sent_count"}
PublicRoutes == {"open", "results", "health"}

\* values of API_KEY (std::env::var accepts the empty string) and texts of
\* an x-api-key header; strings are sequences of characters
ApiKeys == {<<>>, <<"a">>}
KeyTexts == {<<>>, <<"a">>, <<"b">>, <<"a", "a">>}

\* the x-api-key header of a request: none, one of visible ASCII, or one
\* whose bytes HeaderValue::to_str rejects
Headers ==
    {None} \cup {Some([ascii |-> TRUE, text |-> t]) : t \in KeyTexts}
           \cup {Some([ascii |-> FALSE, text |-> <<"a">>])}

\* headers.get("x-api-key").and_then(|v| v.to_str().ok()).unwrap_or("")
HeaderText(h) ==
    IF IsNone(h) THEN <<>>
    ELSE IF Unwrap(h).ascii THEN Unwrap(h).text ELSE <<>>

\* subtle::ConstantTimeEq on byte slices
ct_eq(a, b) == Len(a) = Len(b) /\ \A i \in 1..Len(a) : a[i] = b[i]

\* the test of auth_middleware
KeyAccepted(h) ==
    Len(HeaderText(h)) = Len(api_key) /\ ct_eq(HeaderText(h), api_key)

\* a request auth_middleware holds: passed on to its handler (pending) or
\* answered with the response of AppError::Unauthorized
Held(route, h, status) ==
    [route |-> route, key |-> h, query |-> "none", handler |-> FALSE,
     status |-> status, count |-> 0]

\* auth_middleware on a request to a protected route
AuthMiddleware(route, h) ==
    /\ route \in ProtectedRoutes
    /\ http.status # "pending"
    /\ http' = IF KeyAccepted(h) THEN Held(route, h, "pending")
               ELSE Held(route, h, ErrorStatus("Unauthorized"))
    /\ UNCHANGED <<now, batch_size, broker, signalled, call, contents, results,
                   opens, response, timer, started, delivered, main, api_key,
                   storeVars, procVars>>

Protected == \E route \in ProtectedRoutes, h \in Headers : AuthMiddleware(route, h)

\* next.run(request) of a request to POST /v1/messages
HandleMessages ==
    /\ http.status = "pending"
    /\ http.route = "messages"
    /\ \E msgs \in [1..1 -> SchedInputs] : CreateMessage(msgs)

\* next.run(request) of a request to get_result_count or get_sent_count:
\* SELECT statements only
HandleCounts ==
    /\ http.status = "pending"
    /\ http.route \in {"topics", "sent_count"}
    /\ http' = [http EXCEPT !.handler = TRUE, !.status = "OK"]
    /\ UNCHANGED <<now, batch_size, broker, signalled, call, contents, results,
                   opens, response, timer, started, delivered, main, api_key,
                   storeVars, procVars>>

\* health_check
HealthCheck ==
    /\ http.status # "pending"
    /\ http' = [route |-> "health", key |-> <<>>, query |-> "none",
                handler |-> TRUE, status |-> "OK", count |-> 0]
    /\ UNCHANGED <<now, batch_size, broker, signalled, call, contents, results,
                   opens, response, timer, started, delivered, main, api_key,
                   storeVars, procVars>>

\* the public routes, for the first request
PublicOpen == http.status # "pending" /\ PixelFirst

PublicResults == http.status # "pending" /\ WebhookFirst

\* the server of a process configured with any API key, over an empty store
AuthInit ==
    /\ now = 0
    /\ batch_size = 1
    /\ requests = <<>>
    /\ contents = <<>>
    /\ broker = [i \in 1..MaxRequests |-> Ack]
    /\ published = <<>>
    /\ claimed = <<>>
    /\ LoopInit
    /\ api_key \in ApiKeys
    /\ call = NoCall

NextAuth ==
    \/ Protected
    \/ HandleMessages
    \/ HandleCounts
    \/ HealthCheck
    \/ PublicOpen
    \/ PublicResults
    \/ PixelInsert

SpecAuth == AuthInit /\ [][NextAuth]_vars

\* ---- the loops of processes that can be told to shut down
Shutdown(p) == Signal(p) \/ Exit(p)

NextShutdown == (\E p \in Procs : Cycle(p) \/ Shutdown(p)) \/ Ingress \/ Advance

SpecShutdown == Init /\ [][NextShutdown]_vars

(* ------------------------------- C11 ---------------------------------- *)
\* C11: when a process commits its reconcile transaction, every request of
\* the batch whose task returned Ok is Sent with a null error and every one
\* whose task returned the publish error is Failed with that error as its
\* text; so every Sent row has a null error and every Failed row a non-null one.
OutcomeMapping ==
    [][/\ \A p \in Procs :
            (pc[p] = "reconcile" /\ pc'[p] \in {"pause", "claim"}) =>
                \A k \in 1..Len(batch[p]) :
                    LET r == requests'[batch[p][k]] IN
                    /\ tasks[p][k] = "ok" =>
                            (r.status = Sent /\ r.error = <<>>)
                    /\ tasks[p][k] = "err" =>
                            (r.status = Failed /\ r.error = <<NatsError>>)
       /\ \A i \in 1..Len(requests') :
            /\ requests'[i].status = Sent => requests'[i].error = <<>>
            /\ requests'[i].status = Failed => requests'[i].error # <<>>]_vars

\* a published request whose publish failed is Failed with the error text
FailedWithReason ==
    \E i \in Ids : /\ Status(i) = Failed
                   /\ requests[i].error = <<NatsError>>
                   /\ published[i] = 1
                   /\ broker[i] = Nack

(* ------------------------------- C12 ---------------------------------- *)
\* C12: the step by which a process leaves its reconcile transaction either
\* applies every update of the batch at once, or (a store failure at any
\* point of the transaction) applies none of them and leaves every request
\* of the batch as it was, in Processing.
ReconcileAtomic ==
    [][\A p \in Procs :
        (pc[p] = "reconcile" /\ pc'[p] # "reconcile") =>
            \/ \A k \in 1..Len(updates[p]) :
                    LET u == updates[p][k] IN
                    /\ requests'[u.id].status = u.status
                    /\ requests'[u.id].error = u.error
            \/ \A i \in Range(batch[p]) :
                    /\ requests'[i] = requests[i]
                    /\ requests'[i].status = Processing]_vars

\* a batch of two published requests was given up by its process without
\* any update: both are still Processing
BatchLeftProcessing ==
    /\ \A p \in Procs : pc[p] = "wait" /\ ticks[p] > 0
    /\ Len(requests) = 2
    /\ \A i \in Ids : /\ Status(i) = Processing
                      /\ published[i] = 1
                      /\ requests[i].updated_at = 0

(* ------------------------------- C13 ---------------------------------- *)
\* C13: when a process is done with a batch (reconcile committed, or
\* nothing to reconcile), a request whose task panicked has no update and
\* is still Processing, and every other request of the batch is Sent
\* (task returned Ok) or Failed (task returned the publish error).
PanicLeavesRow ==
    [][\A p \in Procs :
        (/\ pc[p] \in {"collect", "reconcile"}
         /\ pc'[p] \in {"pause", "claim"}) =>
            \A k \in 1..Len(batch[p]) :
                LET id == batch[p][k] IN
                /\ broker[id] = Panic =>
                        /\ requests'[id] = requests[id]
                        /\ requests'[id].status = Processing
                        /\ \A j \in 1..Len(updates[p]) : updates[p][j].id # id
                /\ broker[id] = Ack => requests'[id].status = Sent
                /\ broker[id] = Nack => requests'[id].status = Failed]_vars

\* one task of a batch of two panicked: its request is still Processing
\* and the other one was reconciled
PanickedBesideSent ==
    \E i, j \in Ids :
        /\ broker[i] = Panic /\ Status(i) = Processing /\ claimed[i] = 1
        /\ BatchesOf(i) = {}
        /\ broker[j] = Ack /\ Status(j) = Sent
        /\ requests[i].updated_at = requests[j].updated_at

(* ------------------------------- C14 ---------------------------------- *)
\* C14: a request in Processing changes, is claimed or is published only by
\* a step of a process that holds it in its own current batch; a Processing
\* request that no process holds (its process crashed between the claim and
\* the reconcile commit) is never claimed, published or changed again.
StrandedStay ==
    [][\A i \in Ids :
        (/\ Status(i) = Processing
         /\ \/ requests'[i] # requests[i]
            \/ published'[i] # published[i]
            \/ claimed'[i] # claimed[i]) =>
            \E p \in Procs :
                /\ i \in Range(batch[p])
                /\ <<pc[p], tasks[p]>> # <<pc'[p], tasks'[p]>>
                /\ \A q \in Procs \ {p} :
                      <<pc[q], tasks[q], locked[q]>>
                          = <<pc'[q], tasks'[q], locked'[q]>>]_vars

\* a request was claimed once, its process crashed before publishing it,
\* and a process is now claiming another request past it
StrandedAfterCrash ==
    \E i \in Ids, p \in Procs :
        /\ Status(i) = Processing /\ BatchesOf(i) = {}
        /\ claimed[i] = 1 /\ published[i] = 0
        /\ pc[p] = "locked" /\ locked[p] # <<>> /\ i \notin Range(locked[p])

(* ------------------------------- C15 ---------------------------------- *)
\* C15: within one tick a process goes on to a further claim only after a
\* claim that returned exactly batch_size rows; after a batch of fewer rows
\* and its reconciliation the tick ends without a further claim.
FurtherClaimOnlyAfterFull ==
    [][\A p \in Procs :
        (pc[p] = "reconcile" /\ pc'[p] # "reconcile") =>
            /\ pc'[p] \in {"pause", "claim"} => Len(batch[p]) = batch_size
            /\ Len(batch[p]) < batch_size => pc'[p] \in {"wait", "down"}]_vars

\* C15 (amended): within one tick a process claims again after every batch
\* it has reconciled (or had nothing to reconcile), after the pause when the
\* number of updates equals batch_size and at once otherwise; the tick ends
\* only by a step that writes no row: a claim that returned nothing, or a
\* store error.
ClaimUntilEmpty ==
    [][\A p \in Procs :
        /\ (pc[p] = "reconcile" /\ pc'[p] # "reconcile"
                /\ requests' # requests) =>
              pc'[p] = IF Len(updates[p]) = batch_size THEN "pause"
                                                       ELSE "claim"
        /\ (pc[p] = "collect" /\ pc'[p] \notin {"collect", "reconcile", "down"})
              => pc'[p] = "claim"
        /\ (pc[p] = "pause" /\ pc'[p] \notin {"pause", "down"})
              => pc'[p] = "claim"
        /\ (pc[p] \notin {"wait", "down"} /\ pc'[p] = "wait") =>
              /\ requests' = requests
              /\ \/ pc[p] = "locked" /\ locked[p] = <<>>
                 \/ pc[p] \in {"claim", "locked", "reconcile"}
                        /\ batch'[p] = <<>>]_vars

\* the only request of the table was claimed as a partial batch by the only
\* process that ever ticked, was reconciled, and that process is claiming
\* again
ClaimAfterPartial ==
    \E p \in Procs :
        /\ batch_size = 2 /\ Len(requests) = 1
        /\ Status(1) = Sent /\ claimed[1] = 1
        /\ pc[p] = "claim"
        /\ \A q \in Procs \ {p} : ticks[q] = 0 /\ pc[q] = "wait"

(* ------------------------------- C16 ---------------------------------- *)
\* C16: a process that exits after a termination signal has finished the
\* dispatch and the reconciliation of the batch it had claimed: the exit
\* leaves no request of its batch in Processing.
ShutdownCompletesBatch ==
    [][\A p \in Procs :
        (pc[p] # "exited" /\ pc'[p] = "exited") =>
            \A i \in Range(batch[p]) : requests'[i].status # Processing]_vars

(* ------------------------------- C17 ---------------------------------- *)
\* C17: once the termination signal has been received by a process, its
\* scheduler loop issues no claim statement.
NoClaimAfterSignal ==
    [][\A p \in Procs :
        signalled[p] => ~(pc[p] = "claim" /\ pc'[p] = "locked")]_vars

(* ------------------------------- C18 ---------------------------------- *)
\* C18: a process that leaves its claim without a batch, or its reconcile
\* without a commit, and has not crashed, is waiting for its next tick and
\* the step wrote no row and holds no lock; from the wait its loop only goes
\* on to the next claim, so a failed cycle never ends run().
StoreErrorKeepsLoop ==
    [][\A p \in Procs :
        /\ (/\ pc[p] \in {"claim", "locked"}
            /\ pc'[p] \notin {"claim", "locked", "spawn", "down"}) =>
                /\ pc'[p] = "wait"
                /\ requests' = requests
                /\ locked'[p] = <<>>
        /\ (/\ pc[p] = "reconcile"
            /\ pc'[p] \notin {"reconcile", "pause", "claim", "down"}) =>
                /\ pc'[p] = "wait"
                /\ requests' = requests
        /\ (pc[p] = "wait" /\ pc'[p] # "wait") =>
                pc'[p] \in {"claim", "down"}]_vars

\* a batch was published and given up without an update (the reconcile
\* failed), and a process is at its claim again on a later tick
ClaimingAfterStoreError ==
    \E i \in Ids, p \in Procs :
        /\ Status(i) = Processing /\ published[i] = 1 /\ BatchesOf(i) = {}
        /\ pc[p] = "claim" /\ ticks[p] = MaxTicks
        /\ \A q \in Procs : pc[q] # "down"

(* ------------------------------- C19 ---------------------------------- *)
\* C19: with one scheduler process, no failure and a broker that
\* acknowledges every publish, when a tick of the process ends every
\* request that was due at the time of the tick's last claim (hence every
\* request that was Created and due when the tick started) is Sent, also
\* when there are more of them than batch_size.
TickDrains ==
    [][(pc[1] # "wait" /\ pc'[1] = "wait") =>
            \A i \in Ids : DueAt(i, cnow[1]) => requests'[i].status = Sent]_vars

\* three requests, more than batch_size, were due at the start and are all
\* Sent, each claimed once, when the process waits for its next tick
BacklogDrained ==
    /\ pc[1] = "wait" /\ ticks[1] > 0
    /\ Len(requests) > batch_size
    /\ \A i \in Ids : /\ DueAt(i, 0)
                      /\ Status(i) = Sent
                      /\ claimed[i] = 1
                      /\ requests[i].updated_at = 0

(* ------------------------------- C20 ---------------------------------- *)
\* C20: the composed body is the request's content (the empty string for a
\* null content) followed by one tracking-pixel tag built from server_host
\* and the request's own id: it starts with the content, ends with the tag,
\* holds the tag's opening once, and is the tag alone for empty or null
\* content.
BodyIsContentThenPixel ==
    ~IsNone(call.body) =>
        LET body == call.body[1]
            content == IF call.request.content = <<>> THEN <<>>
                       ELSE call.request.content[1]
            tag == <<"<img src=\"">> \o call.server_host
                     \o <<"/v1/events/open?requestId=",
                          ToString(call.request.id),
                          "\" width=\"1\" height=\"1\" style=\"display:none;\" alt=\"\">">>
        IN  /\ Len(body) = Len(content) + Len(tag)
            /\ SubSeq(body, 1, Len(content)) = content
            /\ SubSeq(body, Len(content) + 1, Len(body)) = tag
            /\ Cardinality({k \in 1..Len(body) : body[k] = "<img src=\""}) = 1
            /\ content = <<>> => body = tag

\* a body was composed for a request with null content, and it is not empty
NullContentBody ==
    /\ ~IsNone(call.body)
    /\ call.request.content = <<>>
    /\ call.server_host # <<>>
    /\ Len(call.body[1]) > 3

(* ------------------------------- C21 ---------------------------------- *)
CountResults(rid, st) ==
    Cardinality({k \in 1..Len(results) :
                    results[k].request_id = rid /\ results[k].status = st})

\* C21: after any interleaving of webhook deliveries and pixel fetches the
\* Result table holds at most one row per (request_id, status) pair, and a
\* pair that was delivered at least once, with no insert for it still to
\* run, has exactly one row.
ResultUniquePerPair ==
    /\ \A i \in Ids : \A st \in ResultStatuses : CountResults(i, st) <= 1
    /\ \A d \in delivered :
            (d[2] # "Open" \/ d[1] \notin Range(opens))
                => CountResults(d[1], d[2]) = 1

\* the open of request 1 was recorded by the pixel, a notification was
\* stored beside it, and a later delivery was a duplicate
DeliveredTwice ==
    /\ opens = <<>>
    /\ Len(results) = 2
    /\ results[1] = NewResult(1, "Open", "pixel")
    /\ results[2].request_id = 1
    /\ response.status = "INTERNAL_SERVER_ERROR"
    /\ response.request.parse = "ok"

(* ------------------------------- C22 ---------------------------------- *)
\* C22: create_result_event answers every usable notification with
\* success, also one whose (request_id, status) pair already has a Result
\* row, which it leaves alone.
DuplicateIgnored ==
    (response.request.type = "Notification" /\ response.request.parse = "ok")
        => response.status = "OK"

(* ------------------------------- C23 ---------------------------------- *)
\* C23: can_transition_to is true for exactly the five pairs
\* Created->Processing, Created->Stopped, Processing->Sent,
\* Processing->Failed and Processing->Stopped; is_terminal is true exactly
\* for Sent, Failed and Stopped; no transition out of a terminal status is
\* permitted.
TransitionTable ==
    /\ ~IsNone(call.allowed) =>
          (call.allowed[1] <=>
              <<call.from, call.to>> \in
                  {<<"Created", "Processing">>, <<"Created", "Stopped">>,
                   <<"Processing", "Sent">>, <<"Processing", "Failed">>,
                   <<"Processing", "Stopped">>})
    /\ ~IsNone(call.terminal) =>
          (call.terminal[1] <=> call.from \in {"Sent", "Failed", "Stopped"})
    /\ (~IsNone(call.allowed) /\ ~IsNone(call.terminal)) =>
          (call.terminal[1] => ~call.allowed[1])

\* both functions were called for Processing -> Stopped
StoppedFromProcessing ==
    /\ call.from = Processing /\ call.to = Stopped
    /\ call.allowed = <<TRUE>> /\ call.terminal = <<FALSE>>

(* ------------------------------- C24 ---------------------------------- *)
\* C24: a request that is Sent was published and the broker acknowledged
\* its publish; a publish that failed, or whose task never returned, does
\* not lead to Sent.
SentOnlyAcked ==
    \A i \in Ids :
        /\ Status(i) = Sent => (broker[i] = Ack /\ published[i] >= 1)
        /\ broker[i] \in {Nack, Panic} => Status(i) # Sent

\* one request is Sent after its acknowledged publish while the publish of
\* the other one failed and left it Failed
AckedSentBesideNack ==
    \E i, j \in Ids :
        /\ Status(i) = Sent /\ broker[i] = Ack /\ published[i] = 1
        /\ broker[j] = Nack /\ published[j] = 1 /\ Status(j) = Failed
        /\ \A p \in Procs : pc[p] = "wait"

(* ------------------------------- C25 ---------------------------------- *)
\* C25: when a process is done with a batch, it goes to the 100 ms pause
\* exactly when the claim had returned batch_size rows, whatever the
\* outcomes of the tasks of the batch.
PauseAfterFullBatch ==
    [][\A p \in Procs :
        (pc[p] \in {"collect", "reconcile"} /\ pc'[p] \in {"pause", "claim"})
            => (pc'[p] = "pause" <=> Len(batch[p]) = batch_size)]_vars

(* ------------------------------- C26 ---------------------------------- *)
\* C26: a deadline of the interval that passes while a cycle runs starts
\* nothing in the process, and the tick taken after the cycle coalesces all
\* the deadlines that have passed: none of them is left to fire a catch-up
\* cycle.
TicksCoalesced ==
    [][\A p \in Procs :
        /\ timer'[p].due > timer[p].due =>
                <<pc'[p], batch'[p], tasks'[p]>> = <<pc[p], batch[p], tasks[p]>>
        /\ pc'[p] = "claim" /\ pc[p] \notin {"claim", "wait"} =>
                pc[p] \in {"pause", "reconcile", "collect"}
        /\ (pc[p] = "wait" /\ pc'[p] = "claim") =>
                /\ timer[p].due > 0
                /\ timer'[p].due = 0
                /\ timer'[p].skipped = timer[p].due - 1]_vars

\* a cycle that sent a request lasted more than one interval, and the tick
\* after it skipped a deadline
TickAfterLongCycle ==
    \E p \in Procs :
        /\ pc[p] = "claim" /\ timer[p].skipped > 0 /\ timer[p].due = 0
        /\ \E i \in Ids : Status(i) = Sent

(* ------------------------------- C27 ---------------------------------- *)
\* C27: within one batch the publish of the request at position j never
\* begins before the publish of every request at a position i < j has
\* begun.
PublishStartInBatchOrder ==
    [][\A p \in Procs : \A j \in 1..Len(batch[p]) :
        (batch[p][j] \notin Range(started) /\ batch[p][j] \in Range(started'))
            => \A i \in 1..(j - 1) : batch[p][i] \in Range(started)]_vars

\* C27 (amended): within one batch the tasks are spawned one by one in the
\* order of the rows, each after it took a permit, and the publish of the
\* request at position j begins only after the tasks of all positions up to
\* j have been spawned; among spawned tasks the publishes begin in any order.
SpawnInBatchOrder ==
    [][\A p \in Procs :
        /\ Len(tasks'[p]) > Len(tasks[p]) =>
                /\ Len(tasks'[p]) = Len(tasks[p]) + 1
                /\ permits[p] > 0
                /\ \A i \in 1..Len(tasks[p]) : tasks'[p][i] = tasks[p][i]
        /\ \A j \in 1..Len(batch[p]) :
            (batch[p][j] \notin Range(started)
                /\ batch[p][j] \in Range(started')) => j <= Len(tasks[p])]_vars

\* the task of the second row began its publish while the task of the
\* first row, spawned before it, has not begun
LaterRowBeganFirst ==
    \E p \in Procs :
        /\ Len(tasks[p]) >= 2
        /\ started = <<batch[p][2]>>
        /\ tasks[p][1] = "running"

(* ------------------------------- C28 ---------------------------------- *)
\* C28: no step of a scheduler process creates, changes or deletes a row of
\* the Content table or of the Result table: a step that moves a scheduler
\* loop leaves both tables as they are.
SchedulerLeavesCollaborators ==
    [][procVars' # procVars =>
            /\ contents' = contents
            /\ results' = results
            /\ opens' = opens]_vars

\* a request was claimed and reconciled to Sent while the Result table
\* holds its open and its delivery and the Content table its content
SentBesideResults ==
    /\ Len(requests) >= 1 /\ Status(1) = Sent
    /\ Len(contents) = Len(requests)
    /\ Len(results) = 2
    /\ \A k \in 1..2 : results[k].request_id = 1


(* ---- C29: what claim, dispatch and reconcile leave alone ---- *)
\* C29: no step removes a row of email_requests or changes the topic_id,
\* to_email, content_id, scheduled_at or created_at of one; a row changes
\* only in the claim step of a process that locked it, and then only in
\* status and updated_at, or in the reconcile step of a process whose
\* updates name it, and then only in status, error and updated_at; the
\* steps in between (spawn, publish, join) change no row.
RequestFrame ==
    [][/\ Len(requests') >= Len(requests)
       /\ \A i \in Ids :
            /\ requests'[i].topic_id = requests[i].topic_id
            /\ requests'[i].to_email = requests[i].to_email
            /\ requests'[i].content_id = requests[i].content_id
            /\ requests'[i].scheduled_at = requests[i].scheduled_at
            /\ requests'[i].created_at = requests[i].created_at
            /\ requests'[i] # requests[i] =>
                 \E p \in Procs :
                    /\ pc'[p] # pc[p]
                    /\ \/ /\ pc[p] = "locked"
                          /\ i \in Range(locked[p])
                          /\ requests'[i].error = requests[i].error
                       \/ /\ pc[p] = "reconcile"
                          /\ \E k \in 1..Len(updates[p]) :
                                updates[p][k].id = i]_vars

\* a row scheduled for later was claimed and reconciled after it was
\* inserted, and a second row is still as it was inserted
ReconciledBesideUntouched ==
    /\ Len(requests) = 2
    /\ requests[1].status = Sent
    /\ requests[1].scheduled_at = Some(1)
    /\ requests[1].created_at = 0
    /\ requests[1].updated_at = 1
    /\ requests[1].content_id = 1
    /\ requests[2] = NewRequest(2, None, 1)


(* ---- C30: an outcome whose row is gone ---- *)
\* C30: when a reconcile whose updates name a deleted row commits, the
\* deleted row stays as it was and every other update of the batch is applied:
\* its row has the status and the error of the update and updated_at = now.
MissingRowSkipped ==
    [][\A p \in Procs :
          (/\ pc[p] = "reconcile"
           /\ pc'[p] \in {"pause", "claim"}
           /\ \E k \in 1..Len(updates[p]) :
                 requests[updates[p][k].id].status = Deleted) =>
              \A k \in 1..Len(updates[p]) :
                  LET u == updates[p][k] IN
                      IF requests[u.id].status = Deleted
                      THEN requests'[u.id] = requests[u.id]
                      ELSE /\ requests'[u.id].status = u.status
                           /\ requests'[u.id].error = u.error
                           /\ requests'[u.id].updated_at = now]_vars

\* a batch of two was reconciled and the loop went on: the row whose publish
\* failed was deleted while Processing and never got its error, the other
\* row is Sent
SentBesideDeleted ==
    /\ Len(requests) = 2
    /\ broker[2] = Nack
    /\ published[1] = 1 /\ published[2] = 1
    /\ requests[2].status = Deleted /\ requests[2].error = None
    /\ requests[1].status = Sent
    /\ pc[1] = "pause"
    /\ batch[1] = <<>>

(* ---- C31: a producer that cannot be built ---- *)
\* C31: a process whose ProducerService::new returned an error has exited
\* with an error, has spawned neither its scheduler nor its HTTP server, and
\* its scheduler loop never left its start: it holds no lock and no batch.
ProducerFailureFatal ==
    \A p \in Procs :
        main[p].producer \in {"connect_err", "stream_err"} =>
            /\ main[p].exit = "error"
            /\ ~main[p].scheduler
            /\ ~main[p].server
            /\ pc[p] = "unstarted"
            /\ locked[p] = <<>>
            /\ batch[p] = <<>>

\* the stream of process 1 could not be created and the process exited, while
\* process 2 started and claimed a batch
FailedBesideClaiming ==
    /\ main[1].producer = "stream_err"
    /\ main[1].exit = "error"
    /\ main[2].scheduler /\ main[2].server
    /\ batch[2] # <<>>

(* ---- C32: envelopes that carry no result ---- *)
\* C32 as stated: a webhook envelope whose type is neither Notification nor
\* SubscriptionConfirmation is answered with a validation error; it and a
\* subscription confirmation append no row to email_results.
UnknownTypeRejected ==
    [][response' # response =>
          /\ response'.request.type
                \notin {"Notification", "SubscriptionConfirmation"} =>
                    /\ response'.status = "BAD_REQUEST"
                    /\ results' = results
          /\ response'.request.type = "SubscriptionConfirmation" =>
                    /\ response'.status = "OK"
                    /\ results' = results]_vars

\* C32, amended: an envelope of any type other than Notification, a
\* subscription confirmation included, is answered with success and appends
\* no row; the validation error is the answer to a Notification whose message
\* is not an SES notification or carries no request_id tag, which appends no
\* row either.
EnvelopeWithoutResult ==
    [][response' # response =>
          /\ response'.request.type # "Notification" =>
                    /\ response'.status = "OK"
                    /\ results' = results
          /\ (/\ response'.request.type = "Notification"
              /\ response'.request.parse \in {"bad_json", "no_tag"}) =>
                    /\ response'.status = "BAD_REQUEST"
                    /\ results' = results]_vars

\* an envelope of another type was answered with success after a result had
\* been stored, and the table still holds that one row
OtherTypeAcknowledged ==
    /\ response.request.type = "UnsubscribeConfirmation"
    /\ response.status = "OK"
    /\ Len(results) = 1
    /\ results[1].raw = "sns"

(* ---- C33: the tracking pixel never waits for the store ---- *)
\* C33: every request to the pixel endpoint is answered 200 with the PNG in
\* the step that takes it, whatever its requestId; that step writes nothing
\* to email_results and at most hands one insert to a task of its own; and
\* when such an insert later runs, whether it adds a row, finds the row
\* present or fails, the response that was given stays what it was.
PixelAlwaysPng ==
    [][/\ (http' # http /\ http'.route = "open") =>
              /\ http'.status = "OK_PNG"
              /\ results' = results
       /\ Len(opens') > Len(opens) =>
              /\ http'.route = "open" /\ http'.status = "OK_PNG"
              /\ results' = results
       /\ Len(opens') < Len(opens) => http' = http
       /\ http.route = "open" => http.status = "OK_PNG"]_vars

\* a request with a malformed requestId got the PNG while the insert of an
\* earlier request was still waiting to run, for a pair whose row is stored
\* already
PngBeforeInsert ==
    /\ http.route = "open" /\ http.query = "malformed"
    /\ http.status = "OK_PNG"
    /\ Len(opens) = 1
    /\ Len(results) = 1
    /\ results[1].request_id = opens[1]

(* ---- C34: a tick ends ---- *)
CreatedCount == Cardinality({i \in Ids : requests[i].status = Created})

\* C34: with no request inserted and every enabled step of the loop taken in
\* the end, a process that has started to claim gets back to waiting for its
\* next tick; no step raises the number of Created rows, and every claim
\* that returns rows lowers it.
TickTerminates ==
    /\ [][/\ CreatedCount' <= CreatedCount
          /\ \A p \in Procs :
                (pc[p] = "locked" /\ pc'[p] = "spawn") =>
                    CreatedCount' < CreatedCount]_vars
    /\ \A p \in Procs : (pc[p] = "claim") ~> (pc[p] = "wait")

\* process 1 claimed the three rows one by one, one publish was acknowledged,
\* one failed and one panicked, and after an empty claim it waits again
TickEndedAfterThreeBatches ==
    /\ batch_size = 1
    /\ pc[1] = "wait" /\ ticks[1] > 0 /\ ticks[2] = 0
    /\ Status(1) = Sent /\ Status(2) = Failed /\ Status(3) = Processing
    /\ \A i \in Ids : claimed[i] = 1

(* ---- C35: dispatch of a batch larger than the semaphore ---- *)
RunningTasks(p) == {i \in 1..Len(tasks[p]) : tasks[p][i] = "running"}

\* C35: the permits a process holds free and the tasks it has running add up
\* to the size of the semaphore at every moment, whatever way the tasks end;
\* the loop leaves the collection of outcomes only with a task spawned and
\* ended for every request of the batch; and the process that has begun to
\* dispatch a batch gets past the collection.
DispatchProgress ==
    /\ [](\A p \in Procs :
            permits[p] + Cardinality(RunningTasks(p)) = Permits)
    /\ [][\A p \in Procs :
            (pc[p] = "collect" /\ pc'[p] # "collect") =>
                /\ Len(tasks[p]) = Len(batch[p])
                /\ RunningTasks(p) = {}]_vars
    /\ (pc[1] = "spawn") ~> (pc[1] \notin {"spawn", "collect"})

\* a batch of eleven, one more than the permits, was dispatched with one
\* publish failed and one panicked; every task has ended, all permits are
\* back and the outcomes are collected
WideBatchCollected ==
    \E p \in Procs :
        /\ pc[p] = "reconcile"
        /\ Len(batch[p]) = WideRows
        /\ Len(tasks[p]) = WideRows
        /\ tasks[p][2] = "err" /\ tasks[p][3] = "panic"
        /\ permits[p] = Permits
        /\ Len(updates[p]) = WideRows - 1

(* ---- C36: create_message commits all its rows or none ---- *)
\* C36: a step that adds a row to email_requests or to email_contents is a
\* create_message call answered with success: it adds as many request rows as
\* content rows, the count of its response, each request Created with a null
\* error and with its own new content row, and leaves the rows that were
\* there alone; a create_message call answered with an error, for a message
\* scheduled too far in the past or for a failure of the store, leaves both
\* tables as they were.
IngressAllOrNothing ==
    [][/\ (Len(requests') # Len(requests) \/ Len(contents') # Len(contents)) =>
              /\ http'.route = "messages" /\ http'.status = "OK"
              /\ http'.count >= 1
              /\ Len(requests') = Len(requests) + http'.count
              /\ Len(contents') = Len(contents) + http'.count
              /\ SubSeq(requests', 1, Len(requests)) = requests
              /\ SubSeq(contents', 1, Len(contents)) = contents
              /\ \A k \in 1..http'.count :
                    LET r == requests'[Len(requests) + k] IN
                        /\ r.status = Created
                        /\ r.error = <<>>
                        /\ r.content_id = Len(contents) + k
       /\ (http' # http /\ http'.route = "messages") =>
              IF http'.status = "OK"
              THEN Len(requests') = Len(requests) + http'.count
              ELSE requests' = requests /\ contents' = contents]_vars

\* a call was rejected for its schedule after an earlier call of one message
\* had been accepted: the table holds that one request, which the scheduler
\* claimed and sent, and its content row
RejectedBesideSent ==
    /\ http.route = "messages" /\ http.status = "BAD_REQUEST"
    /\ Len(requests) = 1 /\ Len(contents) = 1
    /\ requests[1].status = Sent
    /\ requests[1].content_id = 1

(* ---- C37: the API key of the protected routes ---- *)
\* the x-api-key header is there and is the configured key
KeyEquals(h) ==
    ~IsNone(h) /\ Unwrap(h).ascii /\ Unwrap(h).text = api_key

\* C37: the handler of a protected route runs only for a request that
\* auth_middleware passed on and whose x-api-key header equals the configured
\* key; a request to a protected route whose header is missing or differs is
\* answered 401 and changes no table; a request to a public route reaches
\* its handler without a key.
ApiKeyRequired ==
    [][http' # http =>
          /\ (http'.route \in ProtectedRoutes /\ http'.handler) =>
                /\ http.status = "pending"
                /\ http.route = http'.route
                /\ KeyEquals(http.key)
          /\ (/\ http'.route \in ProtectedRoutes
              /\ ~http'.handler
              /\ ~KeyEquals(http'.key)) =>
                /\ http'.status = "UNAUTHORIZED"
                /\ storeVars' = storeVars
                /\ contents' = contents
                /\ results' = results
          /\ http'.route \in PublicRoutes => http'.handler]_vars

====
